---- MODULE Spec2Model ----
(***************************************************************************)
(* Model of .github/scripts/notion_watch.py: a polling job that loads a    *)
(* checkpoint file, queries the workspace API for new database pages and   *)
(* new page blocks, posts one webhook message per unseen item, and saves   *)
(* the checkpoint once at the end.                                         *)
(*                                                                         *)
(* Python values are represented as follows.  None is the empty tuple.     *)
(* An ISO-8601 string is <<"iso", t>>, a datetime is <<"dt", t>>, a        *)
(* pagination cursor is <<"cur", n>>; t and n are integers.  Item ids are  *)
(* strings.  The checkpoint file holds JSON text, a sequence of tokens.    *)
(***************************************************************************)
EXTENDS Integers, Sequences, FiniteSets, TLC

VARIABLES clock,      \* the wall clock read by datetime.now
          file,       \* state/notion_state.json: [exists, text]
          db,         \* provider: database id -> records, ascending created_time
          pg,         \* provider: page id -> child blocks in listing order
          DB_IDS,     \* configured database ids (read once from the environment)
          PAGE_IDS,   \* configured page ids
          instances,  \* the instances of the script that may run
          last_page,  \* provider: the has_more values it may put on a last page
          proc        \* per instance: the locals of main() and its callees, and the run's history

vars == <<clock, file, db, pg, DB_IDS, PAGE_IDS, instances, last_page, proc>>

-----------------------------------------------------------------------------
(* Bounds *)

MaxTime == 3
MaxRuns == 3
MaxPage == 2
MaxItems == 3
MaxTextRuns == 2

Ids == {"a", "b", "c"}
AllInst == {1, 2}
Statuses == {200, 429, 500}

-----------------------------------------------------------------------------
(* Values *)

None == <<>>

Iso(t) == <<"iso", t>>

Cursor(n) == <<"cur", n>>

\* datetime.now(timezone.utc)
utcnow == <<"dt", clock>>

\* datetime.isoformat
isoformat(dt) == Iso(dt[2])

\* dateutil.parser.parse
dtparse(s) == <<"dt", s[2]>>

now_iso == isoformat(utcnow)

Min(a, b) == IF a < b THEN a ELSE b

Range(s) == {s[n] : n \in 1..Len(s)}

IdsOf(s) == [n \in 1..Len(s) |-> s[n].id]

\* list(a_set): the elements once each, in an order the caller cannot rely on
ListsOf(S) == {s \in [1..Cardinality(S) -> S] : Range(s) = S}

-----------------------------------------------------------------------------
(* State store: load_state, save_state and the JSON text between them *)

NoFile == [exists |-> FALSE, text |-> <<>>]

JsonValue(v) == IF v = None THEN <<"null">> ELSE <<"str:iso", v[2]>>

\* the timestamp written as null
json_dump_null_timestamp(state) ==
    <<  <<"{">>, <<"key", "last_checked">>, <<"null">>,
        <<"key", "seen_ids">>, <<"[">>  >>
    \o [n \in 1..Len(state.seen_ids) |-> <<"str:id", state.seen_ids[n]>>]
    \o <<  <<"]">>, <<"}">>  >>

\* json.dump of {"last_checked": ..., "seen_ids": [...]}
json_dump(state) ==
    <<  <<"{">>, <<"key", "last_checked">>, JsonValue(state.last_checked),
        <<"key", "seen_ids">>, <<"[">>  >>
    \o [n \in 1..Len(state.seen_ids) |-> <<"str:id", state.seen_ids[n]>>]
    \o <<  <<"]">>, <<"}">>  >>

\* json.load of that text
json_load(text) ==
    [last_checked |-> IF text[3] = <<"null">> THEN None ELSE Iso(text[3][2]),
     seen_ids     |-> [n \in 1..(Len(text) - 7) |-> text[5 + n][2]]]

load_state(f) ==
    IF ~f.exists THEN [last_checked |-> None, seen_ids |-> <<>>]
    ELSE json_load(f.text)

\* the ids already in the file kept, after those of state
save_state_merging(state) ==
    LET kept == Range(load_state(file).seen_ids) \ Range(state.seen_ids)
    IN  [exists |-> TRUE,
         text |-> json_dump([state EXCEPT !.seen_ids =
                                @ \o (CHOOSE s \in ListsOf(kept) : TRUE)])]

\* the file after save_state(state): opened with "w", the whole text replaced
save_state(state) == [exists |-> TRUE, text |-> json_dump(state)]

-----------------------------------------------------------------------------
(* The remote services *)

\* only server errors raise
raise_for_status_5xx(status) == status >= 500 /\ status < 600

\* requests' Response.raise_for_status raises on 4xx and 5xx
raise_for_status(status) == status >= 400 /\ status < 600

\* has_more taken as true when the response leaves it out
has_more_by_default(data) == data.has_more # "false"

\* data.get("has_more") is truthy
has_more(data) == data.has_more = "true"

\* The workspace API's listing for a request: a database query applies the
\* created_time "after" filter of the payload, a children listing has none.
Listing(op, cid, after_iso) ==
    IF op = "query"
    THEN SelectSeq(db[cid], LAMBDA r : after_iso = None \/ r.created_time[2] > after_iso[2])
    ELSE pg[cid]

Offset(cursor) == IF cursor = None THEN 0 ELSE cursor[2]

\* The pages the API may answer with for a listing L and a start cursor: at
\* least one item while items remain, at most MaxPage; has_more tells whether
\* items remain, and on the last page is false or, with some providers, left out.
Responses(L, cursor) ==
    LET off == Min(Offset(cursor), Len(L))
        lens == IF off = Len(L) THEN {0} ELSE 1..Min(MaxPage, Len(L) - off)
    IN  UNION {
          IF off + n < Len(L)
          THEN {[results |-> SubSeq(L, off + 1, off + n), has_more |-> "true",
                 next_cursor |-> Cursor(off + n)]}
          ELSE {[results |-> SubSeq(L, off + 1, off + n), has_more |-> h,
                 next_cursor |-> None] : h \in last_page}
          : n \in lens }

-----------------------------------------------------------------------------
(* Formatter: page_title, format_page_block, format_block_item.  A string is
   the sequence of its code points.  A rich-text run is [kind, plain_text]:
   a dict with "plain_text", a dict without it, or a value that is not a
   dict.  A dict entry that may be missing is [present, value]. *)

\* line 86: [:120]
TITLE_MAX == 120

\* lines 112 and 114: [:200]
PREVIEW_MAX == 200

\* lines 86-87: "(제목 없음)"
NO_TITLE == <<40, 51228, 47785, 32, 50630, 51020, 41>>

\* line 121: "(텍스트 없음)"
NO_TEXT == <<40, 53581, 49828, 53944, 32, 50630, 51020, 41>>

Take(str, n) == SubSeq(str, 1, Min(n, Len(str)))

\* r.get("plain_text", "")
plain_text(r) == IF r.kind = "text" THEN r.plain_text ELSE <<>>

RECURSIVE join(_)
\* "".join([r.get("plain_text", "") for r in runs])
join(runs) ==
    IF runs = <<>> THEN <<>>
    ELSE join(SubSeq(runs, 1, Len(runs) - 1)) \o plain_text(runs[Len(runs)])

RECURSIVE join_truncated(_, _)
\* the runs joined after each was cut to n characters
join_truncated(runs, n) ==
    IF runs = <<>> THEN <<>>
    ELSE join_truncated(SubSeq(runs, 1, Len(runs) - 1), n)
         \o Take(plain_text(runs[Len(runs)]), n)

\* the cut applied to each run instead of to the joined text
text_of_per_run(runs, n) == join_truncated(runs, n)

\* lines 86, 112, 114: "".join([...])[:n]
text_of(runs, n) == Take(join(runs), n)

\* r.get on a run that is not a dict raises AttributeError
raises(runs) == \E n \in 1..Len(runs) : runs[n].kind = "notdict"

\* d.get(key, []) of an entry [present, value]
get(entry) == IF entry.present THEN entry.value ELSE <<>>

Missing == [present |-> FALSE, value |-> <<>>]

\* the title of the first property, whatever its type, that has title runs
page_title_any_type(page) ==
    LET props == page.properties
        found == {n \in 1..Len(props) : get(props[n].title) # <<>>}
    IN  IF found = {} THEN NO_TITLE
        ELSE LET v == props[CHOOSE n \in found : \A m \in found : n <= m]
                 title == text_of(get(v.title), TITLE_MAX)
             IN  IF title = <<>> THEN NO_TITLE ELSE title

\* lines 79-87: page_title
page_title(page) ==
    LET props == page.properties
        found == {n \in 1..Len(props) :
                     props[n].type = "title" /\ get(props[n].title) # <<>>}
    IN  IF found = {} THEN NO_TITLE
        ELSE LET v == props[CHOOSE n \in found : \A m \in found : n <= m]
                 title == text_of(get(v.title), TITLE_MAX)
             IN  IF title = <<>> THEN NO_TITLE ELSE title

\* "text" looked at before "rich_text"
preview_runs_text_first(data) ==
    IF data.kind # "dict" THEN <<>>
    ELSE IF data.text.present /\ data.text.value # <<>> THEN data.text.value
    ELSE IF data.rich_text.present /\ data.rich_text.value # <<>>
         THEN data.rich_text.value
    ELSE <<>>

\* lines 110-114: the runs the preview is made of, none if data is not a dict
\* or has neither a non-empty "rich_text" nor a non-empty "text"
preview_runs(data) ==
    IF data.kind # "dict" THEN <<>>
    ELSE IF data.rich_text.present /\ data.rich_text.value # <<>>
         THEN data.rich_text.value
    ELSE IF data.text.present /\ data.text.value # <<>> THEN data.text.value
    ELSE <<>>

\* the preview left empty
preview_of_empty(txt) == txt

\* line 121: txt or "(텍스트 없음)"
preview_of(txt) == IF txt = <<>> THEN NO_TEXT ELSE txt

NoItem ==
    [kind |-> "none", properties |-> <<>>, type |-> "",
     data |-> [kind |-> "absent", rich_text |-> Missing, text |-> Missing]]

NoBlocks == [kind |-> "none", title |-> <<>>, preview |-> <<>>, raised |-> FALSE]

\* lines 92-103: format_page_block, the title it shows
format_page_block(page) ==
    [kind |-> "page", title |-> page_title(page), preview |-> <<>>, raised |-> FALSE]

\* lines 105-123: format_block_item, the preview it shows; an exception of
\* line 112 or 114 leaves no payload
format_block_item(block) ==
    LET runs == preview_runs(block.data)
    IN  IF raises(runs)
        THEN [kind |-> "block", title |-> <<>>, preview |-> <<>>, raised |-> TRUE]
        ELSE [kind |-> "block", title |-> <<>>,
              preview |-> preview_of(text_of(runs, PREVIEW_MAX)), raised |-> FALSE]

-----------------------------------------------------------------------------
(* One instance of the script: the locals of main() and of the function it
   is in, and what the run has done so far *)

EmptyState == [last_checked |-> None, seen_ids |-> <<>>]

NoRun == [outcome |-> "idle", posts |-> <<>>, last_checked_iso |-> None,
          state |-> EmptyState]

IdleProc ==
    [pc |-> "idle", run |-> 0,
     state |-> EmptyState, last_checked |-> None, seen_ids |-> {},
     last_checked_iso |-> None, any_posted |-> FALSE,
     dbi |-> 0, pgi |-> 0, it |-> 0, after_dt |-> None,
     pages |-> <<>>, blks |-> <<>>,
     \* query_new_db_pages / list_new_blocks
     cid |-> "", after |-> None, start_cursor |-> None, results |-> <<>>, ret |-> "",
     \* format_page_block / format_block_item
     item |-> NoItem, blocks |-> NoBlocks,
     \* history of the run
     started |-> 0, loaded |-> EmptyState, file0 |-> NoFile, writes |-> 0,
     reqs |-> <<>>, posts |-> <<>>, formatted |-> <<>>,
     prev |-> NoRun]

\* a request of the run and the response it got
Req(op, target, after, cursor, status, data) ==
    [op |-> op, target |-> target, after |-> after, cursor |-> cursor,
     status |-> status, results |-> data.results,
     has_more |-> data.has_more, next_cursor |-> data.next_cursor]

NoData == [results |-> <<>>, has_more |-> "absent", next_cursor |-> None]

-----------------------------------------------------------------------------
(* main() *)

\* the boundary taken half an hour before now, as the comment of line 130 has it
first_run_boundary_earlier == Iso(clock - 1)

\* line 135: on a first run the boundary is the current time
first_run_boundary == isoformat(utcnow)

\* lines 126-139: load the checkpoint and fix the "since" boundary
Start(i) ==
    LET p == proc[i]
        state == load_state(file)
        last_checked == state.last_checked
    IN  /\ i \in instances
        /\ p.pc \in {"idle", "done", "crashed"}
        /\ p.run < MaxRuns
        /\ proc' = [proc EXCEPT ![i] =
              [IdleProc EXCEPT
                 !.pc = "db_for", !.run = p.run + 1,
                 !.state = state, !.last_checked = last_checked,
                 !.seen_ids = Range(state.seen_ids),
                 !.last_checked_iso =
                     IF last_checked = None THEN first_run_boundary ELSE last_checked,
                 !.dbi = 1,
                 !.started = clock, !.loaded = state, !.file0 = file,
                 !.prev = [outcome |-> p.pc, posts |-> p.posts,
                           last_checked_iso |-> p.last_checked_iso,
                           state |-> p.loaded]]]
        /\ UNCHANGED <<clock, file, db, pg, DB_IDS, PAGE_IDS, instances, last_page>>

Unchanged_env == UNCHANGED <<clock, file, db, pg, DB_IDS, PAGE_IDS, instances, last_page>>

\* lines 46-50: the created_time filter is sent when after_iso is given
payload_after(after_iso) == IF after_iso # None THEN after_iso ELSE None

\* the results so far replaced by those of this response
extend_replacing(results, data) == data.results

\* line 56: results.extend(data.get("results", []))
extend(results, data) == results \o data.results

\* the cursor of the response dropped
next_start_cursor_none(data) == None

\* lines 59 and 76: the next request carries the cursor of this response
next_start_cursor(data) == data.next_cursor

\* the comparison made inclusive
is_new_block_inclusive(blk, after_dt) ==
    LET ctime == dtparse(blk.created_time)
    IN  after_dt = None \/ ctime[2] >= after_dt[2]

\* line 72: after_dt is None or ctime > after_dt
is_new_block(blk, after_dt) ==
    LET ctime == dtparse(blk.created_time)
    IN  after_dt = None \/ ctime[2] > after_dt[2]

\* lines 70-73: the blocks of one response that pass the filter, in order
new_blocks(data, after_dt) ==
    SelectSeq(data.results, LAMBDA blk : is_new_block(blk, after_dt))

\* a dedup test that finds nothing
is_seen_never(id, seen_ids) == FALSE

\* lines 146 and 160: the dedup test
is_seen(id, seen_ids) == id \in seen_ids

\* the set replaced by the new id
mark_seen_only(seen_ids, id) == {id}

\* lines 150 and 164: seen_ids.add(id)
mark_seen(seen_ids, id) == seen_ids \cup {id}

\* lines 142-143: next configured database, call query_new_db_pages
DbFor(i) ==
    LET p == proc[i]
    IN  /\ p.pc = "db_for"
        /\ proc' = [proc EXCEPT ![i] =
              IF p.dbi <= Len(DB_IDS)
              THEN [p EXCEPT !.pc = "query_req", !.ret = "db_item",
                             !.cid = DB_IDS[p.dbi],
                             !.after = payload_after(p.last_checked_iso),
                             !.start_cursor = None, !.results = <<>>]
              ELSE [p EXCEPT !.pc = "pg_if"]]
        /\ Unchanged_env

\* lines 52-60, one turn of the loop of query_new_db_pages: the response is a success
QueryOk(i) ==
    LET p == proc[i]
    IN  /\ p.pc = "query_req"
        /\ \E status \in Statuses,
              data \in Responses(Listing("query", p.cid, p.after), p.start_cursor) :
              /\ ~raise_for_status(status)
              /\ LET results == extend(p.results, data)
                     q == [p EXCEPT !.results = results,
                                    !.reqs = Append(@, Req("query", p.cid, p.after,
                                                           p.start_cursor, status, data))]
                 IN  proc' = [proc EXCEPT ![i] =
                        IF ~has_more(data)
                        THEN [q EXCEPT !.pc = p.ret, !.pages = results, !.it = 1]
                        ELSE [q EXCEPT !.start_cursor = next_start_cursor(data)]]
        /\ Unchanged_env

\* lines 53-54: the response is an error and raise_for_status raises
QueryFail(i) ==
    LET p == proc[i]
    IN  /\ p.pc = "query_req"
        /\ \E status \in Statuses :
              /\ raise_for_status(status)
              /\ proc' = [proc EXCEPT ![i] =
                    [p EXCEPT !.pc = "crashed",
                              !.reqs = Append(@, Req("query", p.cid, p.after,
                                                     p.start_cursor, status, NoData))]]
        /\ Unchanged_env

\* lines 144-147: the page was seen, continue
DbSkip(i) ==
    LET p == proc[i]
    IN  /\ p.pc = "db_item"
        /\ p.it <= Len(p.pages)
        /\ is_seen(p.pages[p.it].id, p.seen_ids)
        /\ proc' = [proc EXCEPT ![i] = [p EXCEPT !.it = p.it + 1]]
        /\ Unchanged_env

\* the checkpoint rewritten after every post instead of once at the end
DbPost_checkpointing(i) ==
    LET p == proc[i]
        pid == p.pages[p.it].id
    IN  /\ p.pc = "db_item"
        /\ p.it <= Len(p.pages)
        /\ ~is_seen(pid, p.seen_ids)
        /\ \E status \in Statuses :
              LET q == [p EXCEPT !.formatted = Append(@, pid),
                                 !.reqs = Append(@, Req("post", pid, None, None,
                                                        status, NoData))]
              IN  IF raise_for_status(status)
                  THEN /\ proc' = [proc EXCEPT ![i] = [q EXCEPT !.pc = "crashed"]]
                       /\ file' = file
                  ELSE /\ proc' = [proc EXCEPT ![i] =
                             [q EXCEPT !.seen_ids = mark_seen(@, pid),
                                       !.posts = Append(@, pid),
                                       !.any_posted = TRUE, !.it = p.it + 1]]
                       /\ \E ids \in ListsOf(mark_seen(p.seen_ids, pid)) :
                             file' = save_state([p.state EXCEPT !.seen_ids = ids])
        /\ UNCHANGED <<clock, db, pg, DB_IDS, PAGE_IDS, instances, last_page>>

\* lines 148-151 and 36-41: format the page, post it, mark it seen
DbPost(i) ==
    LET p == proc[i]
        pid == p.pages[p.it].id
    IN  /\ p.pc = "db_item"
        /\ p.it <= Len(p.pages)
        /\ ~is_seen(pid, p.seen_ids)
        /\ \E status \in Statuses :
              LET q == [p EXCEPT !.formatted = Append(@, pid),
                                 !.reqs = Append(@, Req("post", pid, None, None,
                                                        status, NoData))]
              IN  proc' = [proc EXCEPT ![i] =
                     IF raise_for_status(status)
                     THEN [q EXCEPT !.pc = "crashed"]
                     ELSE [q EXCEPT !.seen_ids = mark_seen(@, pid),
                                    !.posts = Append(@, pid),
                                    !.any_posted = TRUE, !.it = p.it + 1]]
        /\ Unchanged_env

\* line 144: the pages of this database are exhausted, back to line 142
DbDone(i) ==
    LET p == proc[i]
    IN  /\ p.pc = "db_item"
        /\ p.it > Len(p.pages)
        /\ proc' = [proc EXCEPT ![i] = [p EXCEPT !.pc = "db_for", !.dbi = p.dbi + 1]]
        /\ Unchanged_env

\* lines 154-155: with pages configured, parse the boundary; otherwise go to the save
PgIf(i) ==
    LET p == proc[i]
    IN  /\ p.pc = "pg_if"
        /\ proc' = [proc EXCEPT ![i] =
              IF PAGE_IDS # <<>>
              THEN [p EXCEPT !.pc = "pg_for", !.pgi = 1,
                             !.after_dt = IF p.last_checked_iso # None
                                          THEN dtparse(p.last_checked_iso) ELSE None]
              ELSE [p EXCEPT !.pc = "save"]]
        /\ Unchanged_env

\* lines 156-157: next configured page, call list_new_blocks
PgFor(i) ==
    LET p == proc[i]
    IN  /\ p.pc = "pg_for"
        /\ proc' = [proc EXCEPT ![i] =
              IF p.pgi <= Len(PAGE_IDS)
              THEN [p EXCEPT !.pc = "list_req", !.ret = "pg_item",
                             !.cid = PAGE_IDS[p.pgi], !.after = None,
                             !.start_cursor = None, !.results = <<>>]
              ELSE [p EXCEPT !.pc = "save"]]
        /\ Unchanged_env

\* lines 66-77, one turn of the loop of list_new_blocks: the response is a success
ListOk(i) ==
    LET p == proc[i]
    IN  /\ p.pc = "list_req"
        /\ \E status \in Statuses,
              data \in Responses(Listing("list", p.cid, None), p.start_cursor) :
              /\ ~raise_for_status(status)
              /\ LET out == p.results \o new_blocks(data, p.after_dt)
                     q == [p EXCEPT !.results = out,
                                    !.reqs = Append(@, Req("list", p.cid, None,
                                                           p.start_cursor, status, data))]
                 IN  proc' = [proc EXCEPT ![i] =
                        IF ~has_more(data)
                        THEN [q EXCEPT !.pc = p.ret, !.blks = out, !.it = 1]
                        ELSE [q EXCEPT !.start_cursor = next_start_cursor(data)]]
        /\ Unchanged_env

\* lines 67-68: the response is an error and raise_for_status raises
ListFail(i) ==
    LET p == proc[i]
    IN  /\ p.pc = "list_req"
        /\ \E status \in Statuses :
              /\ raise_for_status(status)
              /\ proc' = [proc EXCEPT ![i] =
                    [p EXCEPT !.pc = "crashed",
                              !.reqs = Append(@, Req("list", p.cid, None,
                                                     p.start_cursor, status, NoData))]]
        /\ Unchanged_env

\* lines 158-161: the block was seen, continue
PgSkip(i) ==
    LET p == proc[i]
    IN  /\ p.pc = "pg_item"
        /\ p.it <= Len(p.blks)
        /\ is_seen(p.blks[p.it].id, p.seen_ids)
        /\ proc' = [proc EXCEPT ![i] = [p EXCEPT !.it = p.it + 1]]
        /\ Unchanged_env

\* lines 162-165 and 36-41: format the block, post it, mark it seen
PgPost(i) ==
    LET p == proc[i]
        bid == p.blks[p.it].id
    IN  /\ p.pc = "pg_item"
        /\ p.it <= Len(p.blks)
        /\ ~is_seen(bid, p.seen_ids)
        /\ \E status \in Statuses :
              LET q == [p EXCEPT !.formatted = Append(@, bid),
                                 !.reqs = Append(@, Req("post", bid, None, None,
                                                        status, NoData))]
              IN  proc' = [proc EXCEPT ![i] =
                     IF raise_for_status(status)
                     THEN [q EXCEPT !.pc = "crashed"]
                     ELSE [q EXCEPT !.seen_ids = mark_seen(@, bid),
                                    !.posts = Append(@, bid),
                                    !.any_posted = TRUE, !.it = p.it + 1]]
        /\ Unchanged_env

\* line 158: the blocks of this page are exhausted, back to line 156
PgDone(i) ==
    LET p == proc[i]
    IN  /\ p.pc = "pg_item"
        /\ p.it > Len(p.blks)
        /\ proc' = [proc EXCEPT ![i] = [p EXCEPT !.pc = "pg_for", !.pgi = p.pgi + 1]]
        /\ Unchanged_env

\* the checkpoint holding only the ids this run posted
Save_posted_only(i) ==
    LET p == proc[i]
    IN  /\ p.pc = "save"
        /\ \E ids \in ListsOf(Range(p.posts)) :
              LET state == [p.state EXCEPT !.last_checked = now_iso, !.seen_ids = ids]
              IN  /\ file' = save_state(state)
                  /\ proc' = [proc EXCEPT ![i] =
                        [p EXCEPT !.pc = "done", !.state = state, !.writes = @ + 1]]
        /\ UNCHANGED <<clock, db, pg, DB_IDS, PAGE_IDS, instances, last_page>>

\* lines 168-170: the checkpoint written by the run
Save(i) ==
    LET p == proc[i]
    IN  /\ p.pc = "save"
        /\ \E ids \in ListsOf(p.seen_ids) :
              LET state == [p.state EXCEPT !.last_checked = now_iso, !.seen_ids = ids]
              IN  /\ file' = save_state(state)
                  /\ proc' = [proc EXCEPT ![i] =
                        [p EXCEPT !.pc = "done", !.state = state, !.writes = @ + 1]]
        /\ UNCHANGED <<clock, db, pg, DB_IDS, PAGE_IDS, instances, last_page>>

-----------------------------------------------------------------------------
(* The world around the script *)

Tick ==
    /\ clock < MaxTime
    /\ clock' = clock + 1
    /\ UNCHANGED <<file, db, pg, DB_IDS, PAGE_IDS, instances, last_page, proc>>

Existing ==
    UNION {{r.id : r \in Range(db[d])} : d \in DOMAIN db}
    \cup UNION {{b.id : b \in Range(pg[g])} : g \in DOMAIN pg}

\* a page is created in a database: it comes last in ascending created_time
CreateRecord ==
    /\ Cardinality(Existing) < MaxItems
    /\ \E d \in DOMAIN db, id \in Ids \ Existing :
          db' = [db EXCEPT ![d] = Append(@, [id |-> id, created_time |-> Iso(clock)])]
    /\ UNCHANGED <<clock, file, pg, DB_IDS, PAGE_IDS, instances, last_page, proc>>

\* a block is added to a page, at its top or at its end
CreateBlock ==
    /\ Cardinality(Existing) < MaxItems
    /\ \E g \in DOMAIN pg, id \in Ids \ Existing :
          LET blk == [id |-> id, created_time |-> Iso(clock)]
          IN  \/ pg' = [pg EXCEPT ![g] = Append(@, blk)]
              \/ pg' = [pg EXCEPT ![g] = <<blk>> \o @]
    /\ UNCHANGED <<clock, file, db, DB_IDS, PAGE_IDS, instances, last_page, proc>>

-----------------------------------------------------------------------------
(* The script run by a scheduler, one instance at a time *)

Configs ==
    { <<  <<"d1">>, <<>>  >>,
      <<  <<"d1", "d1">>, <<"p1">>  >>,
      <<  <<>>, <<"p1", "p1">>  >> }

Init ==
    /\ clock = 1
    /\ file = NoFile
    /\ db = [d \in {"d1"} |-> << [id |-> "a", created_time |-> Iso(0)] >>]
    /\ pg = [g \in {"p1"} |-> <<>>]
    /\ \E c \in Configs : DB_IDS = c[1] /\ PAGE_IDS = c[2]
    /\ instances = {1}
    /\ last_page = {"false"}
    /\ proc = [i \in AllInst |-> IdleProc]

Step(i) ==
    \/ Start(i)
    \/ DbFor(i) \/ QueryOk(i) \/ QueryFail(i)
    \/ DbSkip(i) \/ DbPost(i) \/ DbDone(i)
    \/ PgIf(i) \/ PgFor(i) \/ ListOk(i) \/ ListFail(i)
    \/ PgSkip(i) \/ PgPost(i) \/ PgDone(i)
    \/ Save(i)

Next ==
    \/ \E i \in AllInst : Step(i)
    \/ Tick
    \/ CreateRecord
    \/ CreateBlock

Spec == Init /\ [][Next]_vars

-----------------------------------------------------------------------------
(* Two instances of the script at the same time, on one checkpoint file and
   one workspace, with a database configured twice and no page, started from
   the checkpoint of an earlier run and within one tick of the clock; the
   earlier runs are over and each instance makes one run *)

InitTwo ==
    /\ clock = 1
    /\ file = [exists |-> TRUE,
               text |-> json_dump([last_checked |-> Iso(0), seen_ids |-> <<>>])]
    /\ db = [d \in {"d1"} |-> << [id |-> "a", created_time |-> Iso(0)] >>]
    /\ pg = [g \in {"p1"} |-> <<>>]
    /\ DB_IDS = <<"d1", "d1">> /\ PAGE_IDS = <<>>
    /\ instances = {1, 2}
    /\ last_page = {"false"}
    /\ proc = [i \in AllInst |-> [IdleProc EXCEPT !.run = MaxRuns - 1]]

\* the steps of main() with no page configured
StepDb(i) ==
    \/ Start(i)
    \/ DbFor(i) \/ QueryOk(i) \/ QueryFail(i)
    \/ DbSkip(i) \/ DbPost(i) \/ DbDone(i)
    \/ PgIf(i)
    \/ Save(i)

NextTwo ==
    \/ \E i \in AllInst : StepDb(i)
    \/ CreateRecord

SpecTwo == InitTwo /\ [][NextTwo]_vars

-----------------------------------------------------------------------------
(* query_new_db_pages and list_new_blocks called on their own, against a
   listing that does not change during the call *)

Times == 0..MaxTime

Items == [id : Ids, created_time : {Iso(t) : t \in Times}]

\* listings of at most MaxItems items with distinct ids
Listings ==
    UNION {{L \in [1..n -> Items] :
               \A x, y \in 1..n : x # y => L[x].id # L[y].id} : n \in 0..MaxItems}

\* what a database query sorted by ascending created_time lists
SortedListings ==
    {L \in Listings :
        \A x, y \in 1..Len(L) : x < y => L[x].created_time[2] <= L[y].created_time[2]}

Sinces == {None} \cup {Iso(t) : t \in Times}

InitFn ==
    /\ clock = MaxTime
    /\ file = NoFile
    /\ DB_IDS = <<>> /\ PAGE_IDS = <<>>
    /\ instances = {1}
    /\ last_page = {"false", "absent"}
    /\ \E since \in Sinces :
          \/ /\ \E L \in SortedListings : db = [d \in {"d1"} |-> L]
             /\ pg = [g \in {"p1"} |-> <<>>]
             /\ proc = [i \in AllInst |->
                   IF i = 1
                   THEN [IdleProc EXCEPT !.pc = "query_req", !.ret = "returned",
                                         !.cid = "d1", !.after = payload_after(since)]
                   ELSE IdleProc]
          \/ /\ db = [d \in {"d1"} |-> <<>>]
             /\ \E L \in Listings : pg = [g \in {"p1"} |-> L]
             /\ proc = [i \in AllInst |->
                   IF i = 1
                   THEN [IdleProc EXCEPT !.pc = "list_req", !.ret = "returned",
                                         !.cid = "p1",
                                         !.after_dt = IF since = None THEN None
                                                      ELSE dtparse(since)]
                   ELSE IdleProc]

NextFn == QueryOk(1) \/ QueryFail(1) \/ ListOk(1) \/ ListFail(1)

SpecFn == InitFn /\ [][NextFn]_vars

\* every request gets its response: a call that can take a turn of its loop takes it
SpecFnLive == SpecFn /\ WF_vars(NextFn)

-----------------------------------------------------------------------------
(* load_state and save_state called on their own: save_state(C) then
   load_state(), or load_state() with no file *)

\* the lists of at most MaxItems identifiers, repetitions allowed
IdLists == UNION {[1..n -> Ids] : n \in 0..MaxItems}

Checkpoints == [last_checked : Sinces, seen_ids : IdLists]

InitStore ==
    /\ clock = MaxTime
    /\ file = NoFile
    /\ db = [d \in {"d1"} |-> <<>>]
    /\ pg = [g \in {"p1"} |-> <<>>]
    /\ DB_IDS = <<>> /\ PAGE_IDS = <<>>
    /\ instances = {1}
    /\ last_page = {"false"}
    /\ \/ \E C \in Checkpoints :
             proc = [i \in AllInst |->
                IF i = 1 THEN [IdleProc EXCEPT !.pc = "call_save", !.state = C]
                ELSE IdleProc]
       \/ proc = [i \in AllInst |->
             IF i = 1 THEN [IdleProc EXCEPT !.pc = "call_load"] ELSE IdleProc]

\* lines 29-31: save_state(C)
CallSave(i) ==
    LET p == proc[i]
    IN  /\ p.pc = "call_save"
        /\ file' = save_state(p.state)
        /\ proc' = [proc EXCEPT ![i] = [p EXCEPT !.pc = "call_load", !.writes = @ + 1]]
        /\ UNCHANGED <<clock, db, pg, DB_IDS, PAGE_IDS, instances, last_page>>

\* lines 23-27: load_state()
CallLoad(i) ==
    LET p == proc[i]
    IN  /\ p.pc = "call_load"
        /\ proc' = [proc EXCEPT ![i] =
              [p EXCEPT !.pc = "loaded", !.loaded = load_state(file), !.file0 = file]]
        /\ Unchanged_env

NextStore == CallSave(1) \/ CallLoad(1)

SpecStore == InitStore /\ [][NextStore]_vars

-----------------------------------------------------------------------------
(* Properties of one run of main() *)

NoDup(s) == \A x, y \in 1..Len(s) : x # y => s[x] # s[y]

Last(s) == s[Len(s)]

RECURSIVE ConcatResults(_)
\* the results of the responses of a call, in request order
ConcatResults(reqs) ==
    IF reqs = <<>> THEN <<>>
    ELSE ConcatResults(SubSeq(reqs, 1, Len(reqs) - 1)) \o Last(reqs).results

\* the item the loop of instance i is at, if it is at one
AtItem(i) ==
    /\ proc[i].pc \in {"db_item", "pg_item"}
    /\ proc[i].it <= Len(IF proc[i].pc = "db_item" THEN proc[i].pages ELSE proc[i].blks)

CurrentId(i) ==
    IF proc[i].pc = "db_item" THEN proc[i].pages[proc[i].it].id
    ELSE proc[i].blks[proc[i].it].id

\* the post requests of a run
PostsIn(reqs) == SelectSeq(reqs, LAMBDA r : r.op = "post")

\* C1: within a run, an item reached while its id is in seen_ids is neither
\* formatted nor posted, it is only stepped over; whatever is formatted or
\* posted is the item the loop is at and its id is not in seen_ids; so no id
\* is formatted or posted twice in a run, and none that the checkpoint held.
C1_SeenNeverReposted ==
    [][\A i \in AllInst :
          LET p == proc[i]
              q == proc'[i]
          IN  q.run = p.run =>
                /\ (AtItem(i) /\ CurrentId(i) \in p.seen_ids) =>
                      /\ q.formatted = p.formatted
                      /\ q.reqs = p.reqs
                /\ q.formatted # p.formatted =>
                      /\ AtItem(i)
                      /\ q.formatted = Append(p.formatted, CurrentId(i))
                      /\ CurrentId(i) \notin p.seen_ids
                /\ PostsIn(q.reqs) # PostsIn(p.reqs) =>
                      /\ AtItem(i)
                      /\ Last(q.reqs).target = CurrentId(i)
                      /\ CurrentId(i) \notin p.seen_ids
                /\ NoDup(q.formatted)
                /\ NoDup(q.posts)
                /\ Range(q.formatted) \cap Range(q.loaded.seen_ids) = {}
      ]_vars

\* an id posted earlier in the run was returned again and stepped over
C1_Witness ==
    \E i \in instances :
        LET p == proc[i]
        IN  /\ p.pc = "db_item" /\ p.dbi = 2 /\ p.it = 2
            /\ p.pages[1].id \in Range(p.posts)
            /\ p.pages[1].id \notin Range(p.loaded.seen_ids)
            /\ Len(PostsIn(p.reqs)) = 1

\* the creation time of an item the provider holds
CreatedOf(id) ==
    LET recs == UNION {{r \in Range(db[d]) : r.id = id} : d \in DOMAIN db}
                \cup UNION {{b \in Range(pg[g]) : b.id = id} : g \in DOMAIN pg}
    IN  (CHOOSE r \in recs : TRUE).created_time[2]

IsRecord(id) == \E d \in DOMAIN db : \E r \in Range(db[d]) : r.id = id

FirstRun(i) == proc[i].pc \notin {"idle"} /\ ~proc[i].file0.exists

C3_FailedRunKeepsCheckpoint ==
    \A i \in instances :
        LET p == proc[i]
        IN  p.pc = "crashed" =>
              /\ raise_for_status(Last(p.reqs).status)
              /\ p.writes = 0
              /\ file = p.file0
              /\ load_state(file) = p.loaded

\* a run with a checkpoint posted two items and then failed
C3_Witness ==
    \E i \in instances :
        LET p == proc[i]
        IN  /\ p.pc = "crashed" /\ p.file0.exists /\ Len(p.posts) >= 2

\* C4: an error response ends the run at once: it is the last request of the
\* run, so it is not retried and no fetch or post follows it.
C4_ErrorAbortsRun ==
    \A i \in instances :
        LET p == proc[i]
        IN  /\ \A n \in 1..Len(p.reqs) :
                  (p.reqs[n].status >= 400) => (n = Len(p.reqs) /\ p.pc = "crashed")
            /\ p.pc = "crashed" => (p.reqs # <<>> /\ Last(p.reqs).status >= 400)

\* a post failed with items of the page list, and a database, left over
C4_Witness ==
    \E i \in instances :
        LET p == proc[i]
        IN  /\ p.pc = "crashed" /\ Last(p.reqs).op = "post"
            /\ p.it < Len(p.pages) /\ p.dbi < Len(DB_IDS)
            /\ PAGE_IDS # <<>>

\* the records the database queries of a run returned, in order
RecordsReturned(i) ==
    IdsOf(ConcatResults(SelectSeq(proc[i].reqs, LAMBDA r : r.op = "query")))

\* C7: a run without a failed request, with one database configured and no
\* page, whose query returned N records with distinct ids outside the loaded
\* seen_ids: N posts were made, one per record in the order returned, and the
\* checkpoint written holds the loaded ids and those N, and a last_checked
\* not before the start of the run.
C7_EndToEnd ==
    \A i \in instances :
        LET p == proc[i]
            ids == RecordsReturned(i)
            saved == load_state(file)
        IN  ( /\ p.pc = "done" /\ Len(DB_IDS) = 1 /\ PAGE_IDS = <<>>
              /\ NoDup(ids)
              /\ Range(ids) \cap Range(p.loaded.seen_ids) = {} )
            => /\ p.posts = ids
               /\ [n \in 1..Len(PostsIn(p.reqs)) |-> PostsIn(p.reqs)[n].target] = ids
               /\ file.exists
               /\ Range(saved.seen_ids) = Range(p.loaded.seen_ids) \cup Range(ids)
               /\ saved.last_checked # None
               /\ saved.last_checked[2] >= p.started

\* such a run, started from a checkpoint, with two records returned on two pages
C7_Witness ==
    \E i \in instances :
        LET p == proc[i]
        IN  /\ p.pc = "done" /\ Len(DB_IDS) = 1 /\ PAGE_IDS = <<>>
            /\ Len(RecordsReturned(i)) = 2 /\ Len(p.reqs) = 4
            /\ p.file0.exists /\ Len(p.posts) = 2

\* C8: within a run seen_ids only grows, by one id at a time and in the very
\* step in which the post of that id succeeded; the checkpoint file is written
\* at most once in a run, by the step that ends it, after every database and
\* page has been gone through.
C8_GrowOnlyAndSingleSave ==
    [][/\ \A i \in AllInst :
             LET p == proc[i]
                 q == proc'[i]
             IN  q.run = p.run =>
                   /\ p.seen_ids \subseteq q.seen_ids
                   /\ q.seen_ids # p.seen_ids =>
                         /\ Len(q.reqs) = Len(p.reqs) + 1
                         /\ Last(q.reqs).op = "post"
                         /\ Last(q.reqs).status < 400
                         /\ Last(q.reqs).target \notin p.seen_ids
                         /\ q.seen_ids = p.seen_ids \cup {Last(q.reqs).target}
                   /\ q.writes <= 1
                   /\ q.writes # p.writes =>
                         /\ p.pc = "save" /\ q.pc = "done"
                         /\ p.dbi > Len(DB_IDS)
                         /\ PAGE_IDS = <<>> \/ p.pgi > Len(PAGE_IDS)
                   /\ p.pc = "done" => q = p
       /\ file' # file =>
             \E i \in instances :
                 proc'[i].run = proc[i].run /\ proc'[i].writes = proc[i].writes + 1
      ]_vars

\* a run that posted two items, one of a database and one of a page, and
\* then wrote the checkpoint
C8_Witness ==
    \E i \in instances :
        LET p == proc[i]
        IN  /\ p.pc = "done" /\ p.writes = 1
            /\ Len(p.posts) = 2 /\ Cardinality(p.seen_ids) = 2
            /\ IsRecord(p.posts[1]) /\ ~IsRecord(p.posts[2])

-----------------------------------------------------------------------------
(* Properties of load_state and save_state *)

\* C9: load_state() after save_state(C) returns the last_checked of C and
\* the ids of C as a set; load_state() without a file returns no last_checked
\* and no ids.
C9_RoundTrip ==
    \A i \in instances :
        LET p == proc[i]
        IN  p.pc = "loaded" =>
              IF p.writes = 1
              THEN /\ p.loaded.last_checked = p.state.last_checked
                   /\ Range(p.loaded.seen_ids) = Range(p.state.seen_ids)
              ELSE /\ p.loaded.last_checked = None
                   /\ p.loaded.seen_ids = <<>>

\* a checkpoint with a timestamp and two different ids was saved and loaded
C9_Witness ==
    \E i \in instances :
        LET p == proc[i]
        IN  /\ p.pc = "loaded" /\ p.writes = 1
            /\ p.state.last_checked # None
            /\ Cardinality(Range(p.state.seen_ids)) >= 2
            /\ Range(p.loaded.seen_ids) = Range(p.state.seen_ids)

-----------------------------------------------------------------------------
(* Properties of consecutive runs *)

\* instance i is in a run that follows a run which posted and then aborted
AfterAbortedRun(i) ==
    /\ proc[i].pc # "idle"
    /\ proc[i].prev.outcome = "crashed"
    /\ proc[i].prev.posts # <<>>

\* the ids of the items the current loop has gone past
Passed(i) ==
    LET p == proc[i]
    IN  IF p.pc = "db_item" THEN {p.pages[n].id : n \in 1..(p.it - 1)}
        ELSE IF p.pc = "pg_item" THEN {p.blks[n].id : n \in 1..(p.it - 1)}
        ELSE {}

\* the run loads the checkpoint the aborted run had loaded, without the ids
\* that run posted, and posts again each of them it goes past
ReloadsAndReposts(i) ==
    LET p == proc[i]
    IN  /\ p.loaded = p.prev.state
        /\ Range(p.prev.posts) \cap Range(p.loaded.seen_ids) = {}
        /\ Passed(i) \cap Range(p.prev.posts) \subseteq Range(p.posts)

\* C5 as stated: after a run that posted X and aborted, the next run loads
\* the old checkpoint without X, scans the same time window again, and posts
\* X again when the provider returns it.
C5_AsStated ==
    \A i \in instances :
        AfterAbortedRun(i) =>
           /\ ReloadsAndReposts(i)
           /\ proc[i].last_checked_iso = proc[i].prev.last_checked_iso

\* C5 amended: after a run that posted X and aborted, the next run loads the
\* old checkpoint without X and posts X again when the provider returns it;
\* it scans the same time window again when the checkpoint holds a
\* last_checked, and when there is no checkpoint its boundary is its own start
\* time, not the aborted run's.
C5_AtLeastOnce ==
    \A i \in instances :
        LET p == proc[i]
        IN  AfterAbortedRun(i) =>
              /\ ReloadsAndReposts(i)
              /\ p.loaded.last_checked # None =>
                    p.last_checked_iso = p.prev.last_checked_iso
              /\ p.loaded.last_checked = None =>
                    /\ p.last_checked_iso = Iso(p.started)
                    /\ p.started >= p.prev.last_checked_iso[2]

\* a run with a checkpoint posted again what the aborted run before it had posted
C5_Witness ==
    \E i \in instances :
        LET p == proc[i]
        IN  /\ AfterAbortedRun(i)
            /\ p.loaded.last_checked # None
            /\ Range(p.prev.posts) \cap Range(p.posts) # {}

-----------------------------------------------------------------------------
(* Properties of query_new_db_pages and list_new_blocks *)

\* the items of a listing created strictly after since, in listing order
CreatedAfter(L, since) ==
    SelectSeq(L, LAMBDA x : since = None \/ x.created_time[2] > since[2])

Returned(i) == proc[i].pc = "returned" /\ proc[i].reqs # <<>>

\* C6: the first request carries no cursor, every request after a response
\* with has_more carries that response's next_cursor, and the call returns at
\* the first response without has_more; the N responses are then the N pages
\* of the listing, each fetched once, and the value returned is their results
\* concatenated in request order (for list_new_blocks, those of them created
\* after the boundary).
C6_PaginationTraversal ==
    \A i \in instances :
        LET p == proc[i]
            N == Len(p.reqs)
        IN  p.pc \in {"query_req", "list_req", "returned"} =>
              /\ N > 0 => p.reqs[1].cursor = None
              /\ \A n \in 1..(N - 1) :
                    /\ p.reqs[n].has_more = "true"
                    /\ p.reqs[n + 1].cursor = p.reqs[n].next_cursor
              /\ p.pc # "returned" => (N > 0 => p.reqs[N].has_more = "true")
              /\ Returned(i) =>
                    /\ p.reqs[N].has_more # "true"
                    /\ ConcatResults(p.reqs) = Listing(p.reqs[1].op, p.cid, p.after)
                    /\ p.reqs[1].op = "query" => p.results = ConcatResults(p.reqs)
                    /\ p.reqs[1].op = "list" =>
                          p.results = CreatedAfter(ConcatResults(p.reqs), p.after_dt)

\* list_new_blocks returned after three requests, keeping some blocks of the
\* three pages and dropping others
C6_Witness ==
    \E i \in instances :
        LET p == proc[i]
        IN  /\ Returned(i) /\ p.reqs[1].op = "list" /\ Len(p.reqs) = 3
            /\ p.results # <<>> /\ Len(p.results) < Len(pg[p.cid])

\* C10: list_new_blocks returns the blocks of the page's listing, over all
\* its pages, that were created strictly after since, in listing order; a
\* block created at since is left out, and without since all are returned.
C10_BlocksStrictlyAfter ==
    \A i \in instances :
        LET p == proc[i]
        IN  (Returned(i) /\ p.reqs[1].op = "list") =>
              /\ p.results = CreatedAfter(pg[p.cid], p.after_dt)
              /\ p.blks = p.results

\* the listing, over two pages and not in order of creation, held a block
\* created at since, which was left out, and a later one, which was returned
C10_Witness ==
    \E i \in instances :
        LET p == proc[i]
            L == pg[p.cid]
        IN  /\ Returned(i) /\ p.reqs[1].op = "list" /\ Len(p.reqs) >= 2
            /\ p.after_dt # None
            /\ \E x, y \in 1..Len(L) :
                  /\ x < y
                  /\ L[x].created_time[2] > p.after_dt[2]
                  /\ L[y].created_time[2] = p.after_dt[2]
                  /\ L[x].id \in Range(IdsOf(p.results))
                  /\ L[y].id \notin Range(IdsOf(p.results))

-----------------------------------------------------------------------------
(* format_page_block and format_block_item called on their own *)

Long(n) == [c \in 1..n |-> 48 + (c % 10)]

Hello == <<72, 101, 108, 108, 111, 32>>

World == <<87, 111, 114, 108, 100>>

TextRun(str) == [kind |-> "text", plain_text |-> str]

NoTextRun == [kind |-> "notext", plain_text |-> <<>>]

NotDictRun == [kind |-> "notdict", plain_text |-> <<>>]

TitleRuns == {TextRun(str) : str \in {<<>>, Hello, World, Long(65)}} \cup {NoTextRun}

BlockRuns ==
    {TextRun(str) : str \in {<<>>, Hello, Long(65), Long(140)}}
    \cup {NoTextRun, NotDictRun}

RunLists(R) == UNION {[1..n -> R] : n \in 0..MaxTextRuns}

Entries(R) == {Missing} \cup {[present |-> TRUE, value |-> v] : v \in RunLists(R)}

Properties == [type : {"title", "rich_text"}, title : Entries(TitleRuns)]

\* records with no, one or two properties
PageItems ==
    {[kind |-> "page", properties |-> props, type |-> "", data |-> NoItem.data] :
        props \in UNION {[1..n -> Properties] : n \in {0, 1, 2}}}

\* blocks whose type-specific data is missing, is not a dict, or is a dict
BlockItems ==
    {[kind |-> "block", properties |-> <<>>, type |-> "paragraph", data |-> d] :
        d \in [kind : {"dict"}, rich_text : Entries(BlockRuns), text : Entries(BlockRuns)]
              \cup [kind : {"absent", "notdict"}, rich_text : {Missing}, text : {Missing}]}

InitFmt ==
    /\ clock = MaxTime
    /\ file = NoFile
    /\ db = [d \in {"d1"} |-> <<>>]
    /\ pg = [g \in {"p1"} |-> <<>>]
    /\ DB_IDS = <<>> /\ PAGE_IDS = <<>>
    /\ instances = {1}
    /\ last_page = {"false"}
    /\ \/ \E page \in PageItems :
             proc = [i \in AllInst |->
                IF i = 1 THEN [IdleProc EXCEPT !.pc = "format_page", !.item = page]
                ELSE IdleProc]
       \/ \E block \in BlockItems :
             proc = [i \in AllInst |->
                IF i = 1 THEN [IdleProc EXCEPT !.pc = "format_block", !.item = block]
                ELSE IdleProc]

\* line 148: blocks = format_page_block(p)
CallFormatPage(i) ==
    LET p == proc[i]
    IN  /\ p.pc = "format_page"
        /\ proc' = [proc EXCEPT ![i] =
              [p EXCEPT !.pc = "formatted", !.blocks = format_page_block(p.item)]]
        /\ Unchanged_env

\* line 162: blocks = format_block_item(b); an exception ends the run
CallFormatBlock(i) ==
    LET p == proc[i]
        blocks == format_block_item(p.item)
    IN  /\ p.pc = "format_block"
        /\ proc' = [proc EXCEPT ![i] =
              [p EXCEPT !.pc = IF blocks.raised THEN "crashed" ELSE "formatted",
                        !.blocks = blocks]]
        /\ Unchanged_env

NextFmt == CallFormatPage(1) \/ CallFormatBlock(1)

SpecFmt == InitFmt /\ [][NextFmt]_vars

-----------------------------------------------------------------------------
(* Properties of format_page_block and format_block_item *)

RECURSIVE Flatten(_)
\* the texts of the runs one after the other; a run without text counts as empty
Flatten(runs) ==
    IF runs = <<>> THEN <<>>
    ELSE (IF runs[1].kind = "text" THEN runs[1].plain_text ELSE <<>>)
         \o Flatten(Tail(runs))

Prefix(str, n) == [c \in 1..(IF Len(str) < n THEN Len(str) ELSE n) |-> str[c]]

\* the runs an entry holds, none when the entry is missing
RunsOf(entry) == IF entry.present THEN entry.value ELSE <<>>

FormattedPage(i) == proc[i].pc = "formatted" /\ proc[i].blocks.kind = "page"

FormattedBlock(i) == proc[i].pc = "formatted" /\ proc[i].blocks.kind = "block"

\* "(no title)"
NoTitleEnglish == <<40, 110, 111, 32, 116, 105, 116, 108, 101, 41>>

\* "(no text)"
NoTextEnglish == <<40, 110, 111, 32, 116, 101, 120, 116, 41>>

HelloWorld == <<72, 101, 108, 108, 111, 32, 87, 111, 114, 108, 100>>

\* C11 as stated: the title is the concatenation of the runs of the first
\* title-typed property, and is "(no title)" when there is no title-typed
\* property or no title content.
C11_AsStated ==
    \A i \in instances :
        LET props == proc[i].item.properties
            typed == {n \in 1..Len(props) : props[n].type = "title"}
        IN  FormattedPage(i) =>
              IF typed = {} THEN proc[i].blocks.title = NoTitleEnglish
              ELSE LET first == CHOOSE n \in typed : \A m \in typed : n <= m
                       text == Flatten(RunsOf(props[first].title))
                   IN  proc[i].blocks.title
                          = IF text = <<>> THEN NoTitleEnglish ELSE text

\* C11 amended: the title is the first 120 characters of the concatenation of
\* the runs of the first title-typed property that has runs (runs "Hello "
\* and "World" give "Hello World"), and is "(제목 없음)" when no title-typed
\* property has runs or that concatenation is empty.
C11_TitleExtraction ==
    \A i \in instances :
        LET props == proc[i].item.properties
            typed == {n \in 1..Len(props) :
                         props[n].type = "title" /\ RunsOf(props[n].title) # <<>>}
            title == proc[i].blocks.title
        IN  FormattedPage(i) =>
              /\ typed = {} => title = NO_TITLE
              /\ \A n \in typed :
                    (\A m \in typed : n <= m) =>
                       LET text == Flatten(RunsOf(props[n].title))
                       IN  title = IF text = <<>> THEN NO_TITLE
                                   ELSE Prefix(text, TITLE_MAX)
              /\ (typed # {} /\ \A n \in typed :
                                   props[n].title.value = <<TextRun(Hello), TextRun(World)>>)
                    => title = HelloWorld

\* a record whose first property is not title-typed and whose title-typed
\* property has the runs "Hello " and "World" was formatted
C11_Witness ==
    \E i \in instances :
        LET props == proc[i].item.properties
        IN  /\ FormattedPage(i) /\ Len(props) = 2
            /\ props[1].type = "rich_text" /\ props[1].title.present
            /\ props[1].title.value = <<TextRun(World)>>
            /\ props[2].type = "title"
            /\ props[2].title.value = <<TextRun(Hello), TextRun(World)>>
            /\ proc[i].blocks.title = HelloWorld

\* the runs of the first title-typed property that has runs, none without one
TitleSource(page) ==
    LET props == page.properties
        typed == {n \in 1..Len(props) :
                     props[n].type = "title" /\ RunsOf(props[n].title) # <<>>}
    IN  IF typed = {} THEN <<>>
        ELSE RunsOf(props[CHOOSE n \in typed : \A m \in typed : n <= m].title)

\* the runs of "rich_text" if it has runs, else those of "text"
PreviewSource(block) ==
    IF block.data.kind # "dict" THEN <<>>
    ELSE IF RunsOf(block.data.rich_text) # <<>> THEN RunsOf(block.data.rich_text)
    ELSE RunsOf(block.data.text)

\* C12: the cut is made once, on the concatenation of all runs: a title is
\* the first 120 characters of the concatenation (130 characters give 120, a
\* shorter text is unchanged), a preview the first 200; no title is longer
\* than 120 and no preview longer than 200, whatever the runs.
C12_TruncatedAfterConcatenation ==
    \A i \in instances :
        LET title == proc[i].blocks.title
            preview == proc[i].blocks.preview
            ttext == Flatten(TitleSource(proc[i].item))
            ptext == Flatten(PreviewSource(proc[i].item))
        IN  /\ FormattedPage(i) =>
                 /\ Len(title) <= 120
                 /\ ttext # <<>> =>
                       /\ Len(title) = (IF Len(ttext) > 120 THEN 120 ELSE Len(ttext))
                       /\ \A c \in 1..Len(title) : title[c] = ttext[c]
                 /\ Len(ttext) = 130 => Len(title) = 120
            /\ FormattedBlock(i) =>
                 /\ Len(preview) <= 200
                 /\ ptext # <<>> =>
                       /\ Len(preview) = (IF Len(ptext) > 200 THEN 200 ELSE Len(ptext))
                       /\ \A c \in 1..Len(preview) : preview[c] = ptext[c]

\* a title of two runs of 65 characters, 130 in all, came out 120 long
C12_Witness ==
    \E i \in instances :
        LET runs == TitleSource(proc[i].item)
        IN  /\ FormattedPage(i)
            /\ Len(runs) = 2 /\ Len(Flatten(<<runs[1]>>)) = 65 /\ Len(Flatten(<<runs[2]>>)) = 65
            /\ Len(proc[i].blocks.title) = 120

\* the preview made of some runs: their text cut at 200, or the placeholder
PreviewFrom(runs) ==
    IF Flatten(runs) = <<>> THEN NO_TEXT ELSE Prefix(Flatten(runs), 200)

HasNotDict(runs) == \E n \in 1..Len(runs) : runs[n].kind = "notdict"

\* format_block_item has run on a block whose data has both fields
BothFields(i) ==
    /\ proc[i].blocks.kind = "block"
    /\ proc[i].item.data.kind = "dict"
    /\ proc[i].item.data.rich_text.present
    /\ proc[i].item.data.text.present

\* C13 as stated: when the data of a block contains both a rich_text field
\* and a text field, the preview is taken from rich_text and text is ignored.
C13_AsStated ==
    \A i \in instances :
        (BothFields(i) /\ ~proc[i].blocks.raised) =>
            proc[i].blocks.preview = PreviewFrom(proc[i].item.data.rich_text.value)

\* C13 amended: when the data of a block contains a rich_text field that has
\* runs and a text field, the preview is taken from rich_text and text is
\* ignored, whatever text holds.
C13_RichTextPreferred ==
    \A i \in instances :
        LET rich == proc[i].item.data.rich_text.value
        IN  (BothFields(i) /\ rich # <<>>) =>
              /\ proc[i].blocks.raised <=> HasNotDict(rich)
              /\ ~proc[i].blocks.raised => proc[i].blocks.preview = PreviewFrom(rich)

\* both fields held text, and the preview is that of rich_text
C13_Witness ==
    \E i \in instances :
        /\ BothFields(i) /\ proc[i].pc = "formatted"
        /\ proc[i].item.data.rich_text.value = <<TextRun(Hello)>>
        /\ proc[i].item.data.text.value = <<TextRun(Long(65))>>
        /\ proc[i].blocks.preview = Hello

\* format_block_item has run, to its end or to an exception
RanOnBlock(i) == proc[i].pc \in {"formatted", "crashed"} /\ proc[i].blocks.kind = "block"

\* C16 as stated: the preview is "(no text)" if neither rich_text nor text is
\* present or both are empty; otherwise it is the concatenated, truncated
\* text of the first of rich_text, text that is non-empty; and no payload
\* makes the run fail.
C16_AsStated ==
    \A i \in instances :
        LET src == PreviewSource(proc[i].item)
        IN  RanOnBlock(i) =>
              /\ ~proc[i].blocks.raised
              /\ proc[i].blocks.preview
                    = IF src = <<>> THEN NoTextEnglish ELSE Prefix(Flatten(src), 200)

\* C16 amended: the preview is "(텍스트 없음)" if the type-specific data is
\* missing or not a dict, if neither rich_text nor text has runs, or if the
\* runs of the first of rich_text, text that has runs hold no text; otherwise
\* it is the first 200 characters of the concatenation of those runs (an
\* empty rich_text with a text that has content gives the content of text).
\* Missing or empty fields and runs without plain_text never raise; a run
\* that is not a dict in the field used does.
C16_PreviewOrPlaceholder ==
    \A i \in instances :
        LET data == proc[i].item.data
            src == PreviewSource(proc[i].item)
            blocks == proc[i].blocks
        IN  RanOnBlock(i) =>
              /\ blocks.raised <=> HasNotDict(src)
              /\ proc[i].pc = "crashed" <=> blocks.raised
              /\ (~blocks.raised /\ Flatten(src) = <<>>) => blocks.preview = NO_TEXT
              /\ (~blocks.raised /\ Flatten(src) # <<>>) =>
                    /\ blocks.preview # NO_TEXT
                    /\ blocks.preview = Prefix(Flatten(src), 200)
              /\ (data.kind # "dict" \/ (RunsOf(data.rich_text) = <<>> /\ RunsOf(data.text) = <<>>))
                    => (~blocks.raised /\ blocks.preview = NO_TEXT)
              /\ (data.kind = "dict" /\ RunsOf(data.rich_text) = <<>>
                    /\ ~HasNotDict(RunsOf(data.text)) /\ Flatten(RunsOf(data.text)) # <<>>)
                    => blocks.preview = Prefix(Flatten(RunsOf(data.text)), 200)

\* rich_text was an empty list and text held "Hello ": the preview is "Hello "
C16_Witness ==
    \E i \in instances :
        /\ RanOnBlock(i) /\ proc[i].pc = "formatted"
        /\ proc[i].item.data.kind = "dict"
        /\ proc[i].item.data.rich_text.present
        /\ proc[i].item.data.rich_text.value = <<>>
        /\ proc[i].item.data.text.value = <<TextRun(Hello)>>
        /\ proc[i].blocks.preview = Hello

-----------------------------------------------------------------------------
(* Termination of query_new_db_pages and list_new_blocks *)

\* the call of instance i is over: it returned or an error response raised
CallOver(i) == proc[i].pc \in {"returned", "crashed"}

\* a success response without has_more is the last of its call, which returned
StopsAtLastPage(i) ==
    LET p == proc[i]
    IN  \A n \in 1..Len(p.reqs) :
           (p.reqs[n].status < 400 /\ p.reqs[n].has_more \in {"false", "absent"})
              => (n = Len(p.reqs) /\ p.pc = "returned")

\* C15: when every request gets its response the pagination loop ends: the
\* call stops at the first response whose has_more is false or left out,
\* with no request after it.
C15_PaginationTerminates ==
    /\ [](\A i \in instances : StopsAtLastPage(i))
    /\ <>(\A i \in instances : CallOver(i))

\* a call returned on its third response, whose has_more was left out
C15_Witness ==
    \E i \in instances :
        /\ proc[i].pc = "returned" /\ Len(proc[i].reqs) = 3
        /\ proc[i].reqs[3].has_more = "absent"
        /\ proc[i].reqs[1].op = "query"

-----------------------------------------------------------------------------
(* Successive runs of main() *)

\* the run of instance i follows a run that reached save_state
AfterSavedRun(i) == proc[i].pc # "idle" /\ proc[i].prev.outcome = "done"

\* C17: over runs that all reach save_state an id is posted at most once: the
\* checkpoint a run writes holds the ids it loaded and the ids it posted, the
\* next run loads them all, and a run posts no id that it loaded, so none
\* that the run before it posted.
C17_PostedOnceAcrossRuns ==
    \A i \in instances :
        LET p == proc[i]
        IN  /\ p.pc = "done" =>
                 /\ file.exists
                 /\ Range(p.loaded.seen_ids) \cup Range(p.posts)
                       \subseteq Range(load_state(file).seen_ids)
            /\ AfterSavedRun(i) =>
                 /\ Range(p.prev.state.seen_ids) \cup Range(p.prev.posts)
                       \subseteq Range(p.loaded.seen_ids)
                 /\ Range(p.posts) \cap Range(p.prev.posts) = {}
            /\ Range(p.posts) \cap Range(p.loaded.seen_ids) = {}
            /\ NoDup(p.posts)

\* a run that posted and saved, after a run that posted and saved: the
\* checkpoint holds the ids of both
C17_Witness ==
    \E i \in instances :
        LET p == proc[i]
        IN  /\ p.pc = "done" /\ AfterSavedRun(i)
            /\ p.prev.posts # <<>> /\ p.posts # <<>>
            /\ Len(load_state(file).seen_ids) = 2

\* the records of the configured databases and the blocks of the configured pages
ConfiguredItems ==
    UNION {Range(db[d]) : d \in Range(DB_IDS)}
       \cup UNION {Range(pg[g]) : g \in Range(PAGE_IDS)}

\* every run of instance i so far reached save_state
AllRunsSaved(i) ==
    LET p == proc[i]
    IN  /\ p.pc = "done"
        /\ p.run = 1 \/ (p.run = 2 /\ p.prev.outcome = "done")

\* C18: over runs that all reach save_state no new item is missed, the items
\* created while a run is in progress included.  A run started from the
\* checkpoint asks for items created strictly after its last_checked, so an
\* item created after the first run's boundary and before the last_checked
\* of the checkpoint has been posted by the runs so far.
C18_AsStated ==
    \A i \in instances :
        LET p == proc[i]
            first == IF p.run = 1 THEN p.last_checked_iso ELSE p.prev.last_checked_iso
            posted == Range(p.posts) \cup Range(p.prev.posts)
        IN  AllRunsSaved(i) =>
                \A x \in ConfiguredItems :
                    ( /\ x.created_time[2] > first[2]
                      /\ x.created_time[2] < load_state(file).last_checked[2] )
                    => x.id \in posted

-----------------------------------------------------------------------------
(* Two instances at the same time *)

\* both instances loaded the same checkpoint, and each then wrote its own
BothSavedOverSameFile ==
    /\ \A i \in instances : proc[i].pc = "done" /\ proc[i].writes = 1
    /\ proc[1].file0 = proc[2].file0

\* C14: two instances of main() on one checkpoint file do not coordinate.
\* An instance posts the item it is at whenever the id is not in its own
\* seen_ids, whatever the other instance posted, and its save replaces the
\* whole file by its own seen_ids, whatever the file held.  So there are
\* interleavings with an item posted twice, and with an id one instance added
\* missing from the final file (C14_Witness is such a state).
C14_UncoordinatedInstances ==
    [][\A i \in AllInst :
          LET p == proc[i]
              q == proc'[i]
          IN  /\ (q # p /\ AtItem(i) /\ CurrentId(i) \notin p.seen_ids) =>
                    /\ Len(q.reqs) = Len(p.reqs) + 1
                    /\ Last(q.reqs).op = "post"
                    /\ Last(q.reqs).target = CurrentId(i)
              /\ q.writes # p.writes =>
                    /\ file' = save_state(q.state)
                    /\ Range(load_state(file').seen_ids) = p.seen_ids
              /\ (q # p /\ p.pc = "save") => q.writes # p.writes
      ]_vars

\* both instances ran at the same time and saved: an id was posted by both,
\* and an id that one of them added is not in the final file
C14_Witness ==
    /\ instances = {1, 2}
    /\ BothSavedOverSameFile
    /\ Range(proc[1].posts) \cap Range(proc[2].posts) # {}
    /\ \E i \in instances :
          \E id \in Range(proc[i].posts) :
              id \notin Range(load_state(file).seen_ids)

====
